---- MODULE Spec2Model ----
(***************************************************************************)
(* Gym membership pricing: the catalog, validate_selection and             *)
(* calculate_total of gym_membership/pricing.py, and the prompt loop       *)
(* run_cli of gym_membership/cli.py.                                       *)
(*                                                                         *)
(* Python strings that the code only compares and formats (catalog codes,  *)
(* messages) are TLA+ strings; f-strings and "; ".join are \o.  Lines read *)
(* by input() are sequences of one-character strings, so that strip,       *)
(* lower, replace and split are computed character by character.           *)
(***************************************************************************)
EXTENDS Integers, Sequences, FiniteSets, TLC

VARIABLES
    PLANS,              \* pricing.py:33  module-level registry code -> CatalogItem
    ADDONS,             \* pricing.py:39
    PREMIUM_FEATURES,   \* pricing.py:45
    members,            \* arguments of the current calculate_total call
    plan_code,
    addon_codes,
    premium_codes,
    pc,                 \* "ready" (not called), "returned", "raised"
    errors,             \* calculate_total's local `errors` (pricing.py:129)
    result,             \* the CalculationResult returned, NoResult otherwise
    error,              \* the message of the ValueError raised, NoError otherwise
    prev,               \* outcome of the preceding call with the same arguments
    total_usd,          \* argument of a direct _special_offer_discount call
    offer,              \* what that call returned, <<>> before it
    cli_pc,             \* the input() run_cli waits at: "members", "plan", "addons",
                        \* "premiums", "confirm"; "done" once it has ended; "idle"
    answers,            \* what the input() calls of run_cli have produced so far
    ret,                \* run_cli's return value once cli_pc = "done"
    escaped             \* the exception that left run_cli, "" if none

engine_vars == <<members, plan_code, addon_codes, premium_codes, pc, errors,
                 result, error, prev>>
catalog_vars == <<PLANS, ADDONS, PREMIUM_FEATURES>>
offer_vars == <<total_usd, offer>>
cli_vars == <<cli_pc, answers, ret, escaped>>
vars == <<catalog_vars, engine_vars, offer_vars, cli_vars>>

-----------------------------------------------------------------------------
(* Bounds of the model *)

\* member counts range over -1 .. MaxMembers
MaxMembers == 5
\* add-on and premium codes passed to one calculate_total call, together
MaxCodes == 3
\* direct _special_offer_discount calls take totals in -MaxTotal .. MaxTotal
MaxTotal == 450

BoundedSeq(S, n) == UNION {[1..k -> S] : k \in 0..n}

\* codes a caller passes: the registry's own codes, a code of another
\* registry, and (for plans) a code of no registry
PlanCodeInputs == {"basic", "premium", "family", "gold"}
AddonCodeInputs == {"nutrition", "classes", "pt", "exclusive"}
PremiumCodeInputs == {"exclusive", "specialized", "pt"}

-----------------------------------------------------------------------------
(* Catalog *)

CatalogItem(code, name, price_usd, available, is_premium) ==
    [code |-> code, name |-> name, price_usd |-> price_usd,
     available |-> available, is_premium |-> is_premium]

\* a variant whose basic plan is free
SeedPlansFreeBasic ==
    [basic   |-> CatalogItem("basic", "Basic", 0, TRUE, FALSE),
     premium |-> CatalogItem("premium", "Premium", 100, TRUE, FALSE),
     family  |-> CatalogItem("family", "Family", 160, TRUE, FALSE)]

SeedPlans ==
    [basic   |-> CatalogItem("basic", "Basic", 60, TRUE, FALSE),
     premium |-> CatalogItem("premium", "Premium", 100, TRUE, FALSE),
     family  |-> CatalogItem("family", "Family", 160, TRUE, FALSE)]

SeedAddons ==
    [nutrition |-> CatalogItem("nutrition", "Nutrition plan", 20, TRUE, FALSE),
     classes   |-> CatalogItem("classes", "Group classes", 40, TRUE, FALSE),
     pt        |-> CatalogItem("pt", "Personal training sessions", 60, TRUE, FALSE)]

SeedPremiumFeatures ==
    [exclusive   |-> CatalogItem("exclusive", "Exclusive facilities access",
                                 80, TRUE, TRUE),
     specialized |-> CatalogItem("specialized", "Specialized training program",
                                 120, TRUE, TRUE)]

-----------------------------------------------------------------------------
(* Validation *)

RECURSIVE dedupe_loop(_, _, _)
dedupe_loop(values, seen, out) ==
    IF values = <<>> THEN out
    ELSE LET v == Head(values) IN
         IF v \notin seen
         THEN dedupe_loop(Tail(values), seen \cup {v}, Append(out, v))
         ELSE dedupe_loop(Tail(values), seen, out)

\* a variant that keeps every value, repeated or not
dedupe_keep_all(values) == values

_dedupe_preserve_order(values) == dedupe_loop(values, {}, <<>>)

\* repr() of a str holding no quote, backslash or non-printable character
repr(s) == "'" \o s \o "'"

\* one registry's loop body (pricing.py:86-89, 92-95): `kind` is "add-on" or
\* "premium feature"
code_errors(registry, kind, code) ==
    IF code \notin DOMAIN registry
    THEN <<"unknown " \o kind \o ": " \o repr(code) \o ".">>
    ELSE IF ~registry[code].available
    THEN <<kind \o " '" \o code \o "' is not available.">>
    ELSE <<>>

RECURSIVE codes_errors(_, _, _)
codes_errors(registry, kind, codes) ==
    IF codes = <<>> THEN <<>>
    ELSE code_errors(registry, kind, Head(codes))
         \o codes_errors(registry, kind, Tail(codes))

\* a variant that returns at the first violation found
validate_short_circuit(plans, addons, premium_features, m, p, a, f) ==
    IF m <= 0 THEN <<"members must be a positive integer.">>
    ELSE IF p \notin DOMAIN plans THEN <<"unknown plan: " \o repr(p) \o ".">>
    ELSE IF ~plans[p].available THEN <<"plan '" \o p \o "' is not available.">>
    ELSE LET ae == codes_errors(addons, "add-on", _dedupe_preserve_order(a))
             fe == codes_errors(premium_features, "premium feature",
                                _dedupe_preserve_order(f))
         IN  IF ae # <<>> THEN <<ae[1]>>
             ELSE IF fe # <<>> THEN <<fe[1]>>
             ELSE <<>>

\* validate_selection against given registries.  members is an int in every
\* call the model makes (run_cli passes int(raw)), so
\* `not isinstance(members, int)` is FALSE
validate_against(plans, addons, premium_features, m, p, a, f) ==
    (IF m <= 0 THEN <<"members must be a positive integer.">> ELSE <<>>)
    \o (IF p \notin DOMAIN plans
        THEN <<"unknown plan: " \o repr(p) \o ".">>
        ELSE IF ~plans[p].available
        THEN <<"plan '" \o p \o "' is not available.">>
        ELSE <<>>)
    \o codes_errors(addons, "add-on", _dedupe_preserve_order(a))
    \o codes_errors(premium_features, "premium feature", _dedupe_preserve_order(f))

\* validate_selection reads the module's registries
validate_selection(m, p, a, f) ==
    validate_against(PLANS, ADDONS, PREMIUM_FEATURES, m, p, a, f)

-----------------------------------------------------------------------------
(* Pricing rules *)

\* a variant whose thresholds include 200 and 400
special_offer_inclusive(t) ==
    IF t >= 400 THEN 50
    ELSE IF t >= 200 THEN 20
    ELSE 0

_special_offer_discount(t) ==
    IF t > 400 THEN 50
    ELSE IF t > 200 THEN 20
    ELSE 0

\* a variant that keeps the first item only
join_first(sep, items) == IF items = <<>> THEN "" ELSE items[1]

\* str.join
RECURSIVE join(_, _)
join(sep, items) ==
    IF items = <<>> THEN ""
    ELSE IF Len(items) = 1 THEN items[1]
    ELSE items[1] \o sep \o join(sep, Tail(items))

\* tuple(REGISTRY[c] for c in codes)
resolve(registry, codes) == [i \in 1..Len(codes) |-> registry[codes[i]]]

RECURSIVE sum_prices(_)
sum_prices(items) ==
    IF items = <<>> THEN 0 ELSE Head(items).price_usd + sum_prices(Tail(items))

per_member(plan, addons, premium_features) ==
    plan.price_usd + sum_prices(addons) + sum_prices(premium_features)

\* a variant whose discount starts at three members
group_discount_from_three(m, base_total) ==
    IF m >= 3 THEN (base_total * 10) \div 100 ELSE 0

group_discount(m, base_total) ==
    IF m >= 2 THEN (base_total * 10) \div 100 ELSE 0

\* a variant that takes the surcharge on the base total
premium_surcharge_on_base(premium_features, base_total, after_group) ==
    IF premium_features # <<>> THEN (base_total * 15) \div 100 ELSE 0

premium_surcharge(premium_features, base_total, after_group) ==
    IF premium_features # <<>> THEN (after_group * 15) \div 100 ELSE 0

\* a variant that appends the group note after the surcharge note
messages_group_late(m, premium_features, special_offer) ==
    (IF premium_features # <<>>
     THEN <<"Premium surcharge applied: +15% (premium features selected).">>
     ELSE <<>>)
    \o (IF m >= 2
        THEN <<"Group discount applied: 10% off for 2+ members on the same plan.">>
        ELSE <<>>)
    \o (IF special_offer = 20
        THEN <<"Special offer applied: -$20 (total exceeds $200).">>
        ELSE IF special_offer = 50
        THEN <<"Special offer applied: -$50 (total exceeds $400).">>
        ELSE <<>>)

messages(m, premium_features, special_offer) ==
    (IF m >= 2
     THEN <<"Group discount applied: 10% off for 2+ members on the same plan.">>
     ELSE <<>>)
    \o (IF premium_features # <<>>
        THEN <<"Premium surcharge applied: +15% (premium features selected).">>
        ELSE <<>>)
    \o (IF special_offer = 20
        THEN <<"Special offer applied: -$20 (total exceeds $200).">>
        ELSE IF special_offer = 50
        THEN <<"Special offer applied: -$50 (total exceeds $400).">>
        ELSE <<>>)

NoResult == [none |-> TRUE]
NoError == ""

Raised(errs, msg) ==
    [pc |-> "raised", errors |-> errs, result |-> NoResult, error |-> msg]

Returned(r) ==
    [pc |-> "returned", errors |-> <<>>, result |-> r, error |-> NoError]

\* the outcome of calculate_total(m, p, a, f) against the registries
calculate_total(m, p, a, f) ==
    LET addon_codes_list == _dedupe_preserve_order(a)
        premium_codes_list == _dedupe_preserve_order(f)
        errs == validate_selection(m, p, addon_codes_list, premium_codes_list)
    IN  IF errs # <<>> THEN Raised(errs, join("; ", errs))
        ELSE
        LET plan == PLANS[p]
            addons == resolve(ADDONS, addon_codes_list)
            premium_features == resolve(PREMIUM_FEATURES, premium_codes_list)
            base_total == m * per_member(plan, addons, premium_features)
            gd == group_discount(m, base_total)
            after_group == base_total - gd
            ps == premium_surcharge(premium_features, base_total, after_group)
            after_surcharge == after_group + ps
            special_offer == _special_offer_discount(after_surcharge)
            total == after_surcharge - special_offer
        IN  IF total <= 0
            THEN Raised(<<>>, "calculated total is not positive; check pricing configuration.")
            ELSE Returned(
                   [members |-> m,
                    plan |-> plan,
                    addons |-> addons,
                    premium_features |-> premium_features,
                    base_total_usd |-> base_total,
                    group_discount_usd |-> gd,
                    premium_surcharge_usd |-> ps,
                    special_offer_discount_usd |-> special_offer,
                    total_usd |-> total,
                    messages |-> messages(m, premium_features, special_offer)])

-----------------------------------------------------------------------------
(* The engine driven by a caller *)

OfferIdle == total_usd = 0 /\ offer = <<>>
CliIdle == cli_pc = "idle" /\ answers = <<>> /\ ret = 0 /\ escaped = ""

NoOutcome == [none |-> TRUE]
Outcome == [pc |-> pc, errors |-> errors, result |-> result, error |-> error]

\* the calls of tests/test_pricing.py
TestCalls ==
    { [members |-> 1, plan_code |-> "basic", addon_codes |-> <<>>, premium_codes |-> <<>>],
      [members |-> 2, plan_code |-> "basic", addon_codes |-> <<>>, premium_codes |-> <<>>],
      [members |-> 2, plan_code |-> "premium", addon_codes |-> <<>>, premium_codes |-> <<>>],
      [members |-> 3, plan_code |-> "basic", addon_codes |-> <<"pt">>, premium_codes |-> <<>>],
      [members |-> 4, plan_code |-> "family", addon_codes |-> <<"pt">>, premium_codes |-> <<>>],
      [members |-> 2, plan_code |-> "premium", addon_codes |-> <<>>,
       premium_codes |-> <<"exclusive">>],
      [members |-> 0, plan_code |-> "basic", addon_codes |-> <<>>, premium_codes |-> <<>>],
      [members |-> 1, plan_code |-> "gold", addon_codes |-> <<>>, premium_codes |-> <<>>] }

Init ==
    /\ PLANS = SeedPlans
    /\ ADDONS = SeedAddons
    /\ PREMIUM_FEATURES = SeedPremiumFeatures
    /\ members \in -1..MaxMembers
    /\ plan_code \in PlanCodeInputs
    /\ addon_codes \in BoundedSeq(AddonCodeInputs, MaxCodes)
    /\ premium_codes \in BoundedSeq(PremiumCodeInputs, MaxCodes - Len(addon_codes))
    /\ pc = "ready"
    /\ errors = <<>>
    /\ result = NoResult
    /\ error = NoError
    /\ prev = NoOutcome
    /\ OfferIdle
    /\ CliIdle

\* a variant that takes the add-ons it resolves out of the registry
\* (ADDONS.pop(c) for ADDONS[c])
CallPopping(m, p, a, f) ==
    /\ LET o == calculate_total(m, p, a, f)
       IN  /\ pc' = o.pc
           /\ errors' = o.errors
           /\ result' = o.result
           /\ error' = o.error
           /\ ADDONS' = IF o.pc = "returned"
                        THEN [c \in DOMAIN ADDONS \ {a[i] : i \in 1..Len(a)} |-> ADDONS[c]]
                        ELSE ADDONS
    /\ UNCHANGED <<PLANS, PREMIUM_FEATURES>>

\* what a call of calculate_total(m, p, a, f) does to the caller's view and to
\* the module's state: it binds an outcome and assigns no registry
Call(m, p, a, f) ==
    /\ LET o == calculate_total(m, p, a, f)
       IN  /\ pc' = o.pc
           /\ errors' = o.errors
           /\ result' = o.result
           /\ error' = o.error
    /\ UNCHANGED catalog_vars

\* a first call of calculate_total with the arguments chosen
CalculateTotal ==
    /\ pc = "ready"
    /\ Call(members, plan_code, addon_codes, premium_codes)
    /\ UNCHANGED <<members, plan_code, addon_codes, premium_codes, prev,
                   offer_vars, cli_vars>>

\* the same call once more; the earlier outcome is kept in prev
CalculateAgain ==
    /\ pc \in {"returned", "raised"}
    /\ prev' = Outcome
    /\ Call(members, plan_code, addon_codes, premium_codes)
    /\ UNCHANGED <<members, plan_code, addon_codes, premium_codes,
                   offer_vars, cli_vars>>

\* the caller goes on to the next call, one of the test suite's
NextCall ==
    /\ pc \in {"returned", "raised"}
    /\ \E c \in TestCalls :
          /\ members' = c.members
          /\ plan_code' = c.plan_code
          /\ addon_codes' = c.addon_codes
          /\ premium_codes' = c.premium_codes
    /\ pc' = "ready"
    /\ errors' = <<>>
    /\ result' = NoResult
    /\ error' = NoError
    /\ prev' = NoOutcome
    /\ UNCHANGED <<catalog_vars, offer_vars, cli_vars>>

Next == CalculateTotal \/ CalculateAgain \/ NextCall

Spec == Init /\ [][Next]_vars

-----------------------------------------------------------------------------
(* _special_offer_discount called on its own *)

EngineIdle ==
    /\ members = 0
    /\ plan_code = ""
    /\ addon_codes = <<>>
    /\ premium_codes = <<>>
    /\ pc = "ready"
    /\ errors = <<>>
    /\ result = NoResult
    /\ error = NoError
    /\ prev = NoOutcome

SeedCatalog ==
    /\ PLANS = SeedPlans
    /\ ADDONS = SeedAddons
    /\ PREMIUM_FEATURES = SeedPremiumFeatures

OfferInit ==
    /\ SeedCatalog
    /\ EngineIdle
    /\ CliIdle
    /\ total_usd \in -MaxTotal..MaxTotal
    /\ offer = <<>>

SpecialOfferDiscount ==
    /\ offer = <<>>
    /\ offer' = <<_special_offer_discount(total_usd)>>
    /\ UNCHANGED <<catalog_vars, engine_vars, cli_vars, total_usd>>

OfferNext == SpecialOfferDiscount

SpecOffer == OfferInit /\ [][OfferNext]_vars

-----------------------------------------------------------------------------
(* str methods used by cli.py, on sequences of characters *)

Whitespace == {" ", "\t"}

UpperCase == <<"A", "B", "C", "D", "E", "F", "G", "H", "I", "J", "K", "L", "M",
               "N", "O", "P", "Q", "R", "S", "T", "U", "V", "W", "X", "Y", "Z">>
LowerCase == <<"a", "b", "c", "d", "e", "f", "g", "h", "i", "j", "k", "l", "m",
               "n", "o", "p", "q", "r", "s", "t", "u", "v", "w", "x", "y", "z">>
Digits == <<"0", "1", "2", "3", "4", "5", "6", "7", "8", "9">>

\* the one-based position of c in seq, 0 when absent
index_of(seq, c) ==
    IF \E i \in 1..Len(seq) : seq[i] = c
    THEN CHOOSE i \in 1..Len(seq) : seq[i] = c
    ELSE 0

\* str.lower
lower(s) ==
    [i \in 1..Len(s) |->
        IF index_of(UpperCase, s[i]) > 0
        THEN LowerCase[index_of(UpperCase, s[i])]
        ELSE s[i]]

RECURSIVE lstrip(_)
lstrip(s) ==
    IF s # <<>> /\ Head(s) \in Whitespace THEN lstrip(Tail(s)) ELSE s

RECURSIVE rstrip(_)
rstrip(s) ==
    IF s # <<>> /\ s[Len(s)] \in Whitespace
    THEN rstrip(SubSeq(s, 1, Len(s) - 1))
    ELSE s

\* str.strip
strip(s) == rstrip(lstrip(s))

\* str.replace with one-character old and new
replace(s, old, new) == [i \in 1..Len(s) |-> IF s[i] = old THEN new ELSE s[i]]

RECURSIVE split_loop(_, _, _, _)
split_loop(s, sep, cur, parts) ==
    IF s = <<>> THEN Append(parts, cur)
    ELSE IF Head(s) = sep
    THEN split_loop(Tail(s), sep, <<>>, Append(parts, cur))
    ELSE split_loop(Tail(s), sep, Append(cur, Head(s)), parts)

\* str.split(sep) with a one-character sep
split(s, sep) == split_loop(s, sep, <<>>, <<>>)

\* the str a character sequence spells
RECURSIVE Str(_)
Str(s) == IF s = <<>> THEN "" ELSE Head(s) \o Str(Tail(s))

RECURSIVE digits_value(_, _)
digits_value(s, acc) ==
    IF s = <<>> THEN acc
    ELSE digits_value(Tail(s), 10 * acc + (index_of(Digits, Head(s)) - 1))

all_digits(s) == s # <<>> /\ \A i \in 1..Len(s) : index_of(Digits, s[i]) > 0

\* int(str) on signs and ASCII digits: [value, exc], exc "" when it parses
int(s) ==
    LET body == strip(s)
        signed == body # <<>> /\ Head(body) \in {"+", "-"}
        digits == IF signed THEN Tail(body) ELSE body
    IN  IF ~all_digits(digits) THEN [value |-> 0, exc |-> "ValueError"]
        ELSE IF signed /\ Head(body) = "-"
        THEN [value |-> 0 - digits_value(digits, 0), exc |-> ""]
        ELSE [value |-> digits_value(digits, 0), exc |-> ""]

-----------------------------------------------------------------------------
(* cli.py *)

\* what one input() call produces: a line, or the exception it raises at end of
\* input or on an interrupt
Line(text) == [kind |-> "line", text |-> text]
EOFError == [kind |-> "EOFError", text |-> <<>>]
KeyboardInterrupt == [kind |-> "KeyboardInterrupt", text |-> <<>>]

CancelWords == {"q", "quit", "exit"}

_read_int(ans) ==
    IF ans.kind # "line" THEN [value |-> 0, exc |-> ans.kind]
    ELSE LET raw == strip(ans.text) IN
         IF Str(lower(raw)) \in CancelWords
         THEN [value |-> 0, exc |-> "KeyboardInterrupt"]
         ELSE int(raw)

RECURSIVE nonempty_codes(_)
nonempty_codes(parts) ==
    IF parts = <<>> THEN <<>>
    ELSE IF Head(parts) # <<>>
    THEN <<Str(Head(parts))>> \o nonempty_codes(Tail(parts))
    ELSE nonempty_codes(Tail(parts))

_read_codes(ans) ==
    IF ans.kind # "line" THEN [value |-> <<>>, exc |-> ans.kind]
    ELSE LET raw == strip(ans.text) IN
         IF Str(lower(raw)) \in {"-", "none", ""}
         THEN [value |-> <<>>, exc |-> ""]
         ELSE IF Str(lower(raw)) \in CancelWords
         THEN [value |-> <<>>, exc |-> "KeyboardInterrupt"]
         ELSE LET split_parts == split(replace(raw, " ", ","), ",")
                  parts == [i \in 1..Len(split_parts) |-> strip(split_parts[i])]
              IN  [value |-> nonempty_codes(parts), exc |-> ""]

\* the built-in exceptions of the model that derive from Exception
\* (KeyboardInterrupt derives from BaseException only)
ExceptionClasses == {"ValueError", "EOFError"}

\* the except clauses of run_cli for an exception raised in its try block:
\* the value returned, or the exception let through
except_clauses(exc) ==
    IF exc = "KeyboardInterrupt" THEN [ret |-> -1, escaped |-> ""]
    ELSE IF exc \in ExceptionClasses THEN [ret |-> -1, escaped |-> ""]
    ELSE [ret |-> 0, escaped |-> exc]

\* the plan prompt's own cancellation test
plan_cancelled(code) == code \in CancelWords

\* a variant that takes any answer starting with "y"
confirmed_prefix(confirm) == confirm \in {"y", "yes"}

\* the confirmation test
confirmed(confirm) == confirm = "y"

chars_basic == <<"b", "a", "s", "i", "c">>
chars_family == <<"f", "a", "m", "i", "l", "y">>
chars_gold == <<"g", "o", "l", "d">>
chars_pt == <<"p", "t">>
chars_classes == <<"c", "l", "a", "s", "s", "e", "s">>
chars_nutrition == <<"n", "u", "t", "r", "i", "t", "i", "o", "n">>
chars_exclusive == <<"e", "x", "c", "l", "u", "s", "i", "v", "e">>
chars_specialized == <<"s", "p", "e", "c", "i", "a", "l", "i", "z", "e", "d">>

\* what the user may answer at each prompt
MembersAnswers ==
    { Line(<<"1">>), Line(<<"2">>), Line(<<" ", "3", " ">>), Line(<<"0">>),
      Line(<<"-", "1">>), Line(<<"t", "w", "o">>), Line(<<"1", ".", "5">>), Line(<<>>),
      Line(<<"q">>), Line(<<"Q", "u", "i", "t">>), Line(<<"e", "x", "i", "t">>),
      EOFError, KeyboardInterrupt }

PlanAnswers ==
    { Line(chars_basic), Line(<<" ", "P", "r", "e", "m", "i", "u", "m">>),
      Line(chars_family), Line(chars_gold), Line(<<>>),
      Line(<<"q">>), Line(<<"E", "X", "I", "T">>), Line(<<"q", "u", "i", "t", " ">>),
      EOFError, KeyboardInterrupt }

AddonAnswers ==
    { Line(<<"-">>), Line(<<"N", "o", "n", "e">>), Line(<<>>),
      Line(chars_pt), Line(<<"P", "T">>),
      Line(chars_pt \o <<",">> \o chars_classes),
      Line(chars_nutrition \o <<" ">> \o chars_pt \o <<",", ",">> \o chars_pt),
      Line(chars_exclusive),
      Line(<<"q">>), Line(<<"Q", "U", "I", "T">>), Line(<<"q", ",">> \o chars_pt),
      EOFError, KeyboardInterrupt }

PremiumAnswers ==
    { Line(<<"-">>), Line(chars_exclusive),
      Line(chars_exclusive \o <<",", " ">> \o chars_specialized),
      Line(chars_pt), Line(<<"e", "x", "i", "t">>),
      EOFError, KeyboardInterrupt }

ConfirmAnswers ==
    { Line(<<"y">>), Line(<<"Y">>), Line(<<" ", "y", " ">>), Line(<<"y", "e", "s">>),
      Line(<<"n">>), Line(<<>>), Line(<<"q">>),
      EOFError, KeyboardInterrupt }

CliInit ==
    /\ SeedCatalog
    /\ EngineIdle
    /\ OfferIdle
    /\ cli_pc = "members"
    /\ answers = <<>>
    /\ ret = 0
    /\ escaped = ""

\* run_cli ends: it returns value, or lets an exception through
Return(value) ==
    /\ cli_pc' = "done"
    /\ ret' = value
    /\ escaped' = ""

Except(exc) ==
    /\ cli_pc' = "done"
    /\ ret' = except_clauses(exc).ret
    /\ escaped' = except_clauses(exc).escaped

\* run_cli from its start to the plan prompt (cli.py:39-48)
ReadMembers ==
    /\ cli_pc = "members"
    /\ \E ans \in MembersAnswers :
          /\ answers' = Append(answers, ans)
          /\ LET r == _read_int(ans) IN
             IF r.exc # ""
             THEN Except(r.exc) /\ UNCHANGED members
             ELSE /\ members' = r.value
                  /\ cli_pc' = "plan"
                  /\ UNCHANGED <<ret, escaped>>
    /\ UNCHANGED <<catalog_vars, offer_vars, plan_code, addon_codes, premium_codes,
                   pc, errors, result, error, prev>>

\* from the plan prompt to the add-on prompt (cli.py:48-54)
ReadPlan ==
    /\ cli_pc = "plan"
    /\ \E ans \in PlanAnswers :
          /\ answers' = Append(answers, ans)
          /\ IF ans.kind # "line"
             THEN Except(ans.kind) /\ UNCHANGED plan_code
             ELSE /\ plan_code' = Str(lower(strip(ans.text)))
                  /\ IF plan_cancelled(plan_code')
                     THEN Return(-1)
                     ELSE cli_pc' = "addons" /\ UNCHANGED <<ret, escaped>>
    /\ UNCHANGED <<catalog_vars, offer_vars, members, addon_codes, premium_codes,
                   pc, errors, result, error, prev>>

\* from the add-on prompt to the premium prompt (cli.py:54-58)
ReadAddons ==
    /\ cli_pc = "addons"
    /\ \E ans \in AddonAnswers :
          /\ answers' = Append(answers, ans)
          /\ LET r == _read_codes(ans) IN
             IF r.exc # ""
             THEN Except(r.exc) /\ UNCHANGED addon_codes
             ELSE /\ addon_codes' = r.value
                  /\ cli_pc' = "premiums"
                  /\ UNCHANGED <<ret, escaped>>
    /\ UNCHANGED <<catalog_vars, offer_vars, members, plan_code, premium_codes,
                   pc, errors, result, error, prev>>

\* from the premium prompt through calculate_total and the summary to the
\* confirmation prompt (cli.py:58-97)
ReadPremiums ==
    /\ cli_pc = "premiums"
    /\ \E ans \in PremiumAnswers :
          /\ answers' = Append(answers, ans)
          /\ LET r == _read_codes(ans) IN
             IF r.exc # ""
             THEN /\ Except(r.exc)
                  /\ UNCHANGED <<catalog_vars, premium_codes, pc, errors, result, error>>
             ELSE /\ premium_codes' = r.value
                  /\ Call(members, plan_code, addon_codes, r.value)
                  /\ IF pc' = "raised"
                     THEN Except("ValueError")
                     ELSE cli_pc' = "confirm" /\ UNCHANGED <<ret, escaped>>
    /\ UNCHANGED <<offer_vars, members, plan_code, addon_codes, prev>>

\* from the confirmation prompt to the end (cli.py:97-103)
ReadConfirm ==
    /\ cli_pc = "confirm"
    /\ \E ans \in ConfirmAnswers :
          /\ answers' = Append(answers, ans)
          /\ IF ans.kind # "line"
             THEN Except(ans.kind)
             ELSE IF confirmed(Str(lower(strip(ans.text))))
             THEN Return(result.total_usd)
             ELSE Return(-1)
    /\ UNCHANGED <<catalog_vars, offer_vars, engine_vars>>

CliNext == ReadMembers \/ ReadPlan \/ ReadAddons \/ ReadPremiums \/ ReadConfirm

SpecCli == CliInit /\ [][CliNext]_vars

-----------------------------------------------------------------------------
(* Properties *)

Range(s) == {s[i] : i \in 1..Len(s)}

\* s with every element after its first occurrence removed
RECURSIVE FirstOccurrencesFrom(_, _)
FirstOccurrencesFrom(s, i) ==
    IF i > Len(s) THEN <<>>
    ELSE (IF \A j \in 1..(i - 1) : s[j] # s[i] THEN <<s[i]>> ELSE <<>>)
         \o FirstOccurrencesFrom(s, i + 1)

FirstOccurrences(s) == FirstOccurrencesFrom(s, 1)

\* the prices of a set of codes of one registry, added up
RECURSIVE PriceOf(_, _)
PriceOf(registry, codes) ==
    IF codes = {} THEN 0
    ELSE LET c == CHOOSE x \in codes : TRUE
         IN  registry[c].price_usd + PriceOf(registry, codes \ {c})

Called == pc # "ready"

ValidSelection ==
    /\ members >= 1
    /\ plan_code \in DOMAIN PLANS
    /\ Range(addon_codes) \subseteq DOMAIN ADDONS
    /\ Range(premium_codes) \subseteq DOMAIN PREMIUM_FEATURES

StepOffer(t) ==
    CASE t > 400 -> 50
      [] t > 200 /\ t <= 400 -> 20
      [] t <= 200 -> 0

ExpectedBase ==
    members * (PLANS[plan_code].price_usd + PriceOf(ADDONS, Range(addon_codes))
               + PriceOf(PREMIUM_FEATURES, Range(premium_codes)))
ExpectedGroup == IF members >= 2 THEN (ExpectedBase * 10) \div 100 ELSE 0
ExpectedSurcharge ==
    IF Range(premium_codes) # {}
    THEN ((ExpectedBase - ExpectedGroup) * 15) \div 100
    ELSE 0
ExpectedOffer == StepOffer(ExpectedBase - ExpectedGroup + ExpectedSurcharge)

\* C1: for every valid selection calculate_total returns the five money fields
\* of the fixed-order pipeline with floor division: base = members * unit price
\* over the deduplicated codes, group discount 10% of base from two members,
\* premium surcharge 15% of (base - group discount) when a premium feature is
\* selected, the special-offer step of the total after surcharge, and their
\* combination as the total.
C1_Pipeline ==
    (Called /\ ValidSelection) =>
        /\ pc = "returned"
        /\ result.base_total_usd = ExpectedBase
        /\ result.group_discount_usd = ExpectedGroup
        /\ result.premium_surcharge_usd = ExpectedSurcharge
        /\ result.special_offer_discount_usd = ExpectedOffer
        /\ result.total_usd =
              ExpectedBase - ExpectedGroup + ExpectedSurcharge - ExpectedOffer

\* two members on the premium plan with the exclusive feature: 360, 36, 48, 20, 352
C1_Witness ==
    /\ pc = "returned"
    /\ members = 2 /\ plan_code = "premium"
    /\ addon_codes = <<>> /\ premium_codes = <<"exclusive">>
    /\ result.base_total_usd = 360
    /\ result.group_discount_usd = 36
    /\ result.premium_surcharge_usd = 48
    /\ result.total_usd = 352

\* C2: the special-offer discount is 50 above 400, 20 above 200 up to 400 and
\* 0 up to 200, so 200 gives 0, 201 gives 20, 400 gives 20 and 401 gives 50.
C2_StrictThresholds ==
    offer # <<>> =>
        /\ offer[1] = StepOffer(total_usd)
        /\ (total_usd = 200 => offer[1] = 0)
        /\ (total_usd = 201 => offer[1] = 20)
        /\ (total_usd = 400 => offer[1] = 20)
        /\ (total_usd = 401 => offer[1] = 50)

C2_Witness == total_usd = 400 /\ offer = <<20>>

\* the strings of a non-empty list joined by "; ", built from the last one back
RECURSIVE JoinedUpTo(_, _)
JoinedUpTo(strs, n) ==
    IF n = 1 THEN strs[1] ELSE JoinedUpTo(strs, n - 1) \o "; " \o strs[n]

ConfigurationMessage ==
    "calculated total is not positive; check pricing configuration."

\* C3: calculate_total raises the invalid-selection error exactly when
\* validate_selection on the deduplicated arguments returns errors; then there
\* is no result and the message is all those errors, in order, joined by "; ".
C3_InvalidSelection ==
    Called =>
        LET v == validate_selection(members, plan_code,
                                    FirstOccurrences(addon_codes),
                                    FirstOccurrences(premium_codes))
        IN  /\ (pc = "raised" /\ error # ConfigurationMessage) <=> (v # <<>>)
            /\ v # <<>> =>
                  /\ result = NoResult
                  /\ error = JoinedUpTo(v, Len(v))

C3_Witness ==
    /\ pc = "raised"
    /\ members = 0 /\ plan_code = "gold"
    /\ error = "members must be a positive integer.; unknown plan: 'gold'."

UnknownMessage(kind, code) == "unknown " \o kind \o ": '" \o code \o "'."
UnavailableMessage(kind, code) == kind \o " '" \o code \o "' is not available."

\* the message a code earns in a registry, as a list of none or one
CodeViolation(registry, kind, code) ==
    IF code \notin DOMAIN registry THEN <<UnknownMessage(kind, code)>>
    ELSE IF ~registry[code].available THEN <<UnavailableMessage(kind, code)>>
    ELSE <<>>

RECURSIVE Violations(_, _, _, _)
Violations(registry, kind, codes, i) ==
    IF i > Len(codes) THEN <<>>
    ELSE CodeViolation(registry, kind, codes[i])
         \o Violations(registry, kind, codes, i + 1)

ExpectedErrors(plans, addons, premium_features) ==
    (IF members <= 0 THEN <<"members must be a positive integer.">> ELSE <<>>)
    \o CodeViolation(plans, "plan", plan_code)
    \o Violations(addons, "add-on", FirstOccurrences(addon_codes), 1)
    \o Violations(premium_features, "premium feature",
                  FirstOccurrences(premium_codes), 1)

\* the seed registries with one item of each withdrawn
WithdrawnPlans == [SeedPlans EXCEPT !["premium"].available = FALSE]
WithdrawnAddons == [SeedAddons EXCEPT !["pt"].available = FALSE]
WithdrawnFeatures == [SeedPremiumFeatures EXCEPT !["exclusive"].available = FALSE]

\* C4: validate_selection collects every violation: one error for a member
\* count that is not positive, one for a plan that is unknown or unavailable,
\* one for each distinct add-on and premium code that is unknown or unavailable
\* in its own registry, in the order members, plan, add-ons, premiums (each in
\* first-occurrence order); unknown and unavailable messages differ and name
\* the code; the list is empty iff there is no violation.
C4_AllViolationsCollected ==
    /\ validate_selection(members, plan_code, addon_codes, premium_codes)
          = ExpectedErrors(PLANS, ADDONS, PREMIUM_FEATURES)
    /\ validate_against(WithdrawnPlans, WithdrawnAddons, WithdrawnFeatures,
                        members, plan_code, addon_codes, premium_codes)
          = ExpectedErrors(WithdrawnPlans, WithdrawnAddons, WithdrawnFeatures)
    /\ Called /\ pc = "raised" /\ error # ConfigurationMessage =>
          errors = ExpectedErrors(PLANS, ADDONS, PREMIUM_FEATURES)
    /\ Len(validate_selection(members, plan_code, addon_codes, premium_codes))
          = (IF members <= 0 THEN 1 ELSE 0)
            + (IF plan_code \notin DOMAIN PLANS THEN 1 ELSE 0)
            + Cardinality(Range(addon_codes) \ DOMAIN ADDONS)
            + Cardinality(Range(premium_codes) \ DOMAIN PREMIUM_FEATURES)
    /\ (validate_selection(members, plan_code, addon_codes, premium_codes) = <<>>)
          <=> ValidSelection
    /\ \A kind \in {"plan", "add-on", "premium feature"} :
          \A code \in PlanCodeInputs \cup AddonCodeInputs \cup PremiumCodeInputs :
             UnknownMessage(kind, code) # UnavailableMessage(kind, code)

\* no members, an unknown plan, an add-on code of the premium registry given
\* twice, a premium code of the add-on registry: four errors
C4_Witness ==
    /\ pc = "raised"
    /\ members = 0 /\ plan_code = "gold"
    /\ addon_codes = <<"exclusive", "exclusive">> /\ premium_codes = <<"pt">>
    /\ errors = << "members must be a positive integer.",
                   "unknown plan: 'gold'.",
                   "unknown add-on: 'exclusive'.",
                   "unknown premium feature: 'pt'." >>

\* C5: for every valid selection, calculate_total on code sequences with
\* repeats returns what it returns on the sequences with every repeat after
\* the first occurrence removed: money fields, resolved items in
\* first-occurrence order, messages.
C5_DuplicatesCollapsed ==
    (Called /\ ValidSelection) =>
        LET o == calculate_total(members, plan_code,
                                 FirstOccurrences(addon_codes),
                                 FirstOccurrences(premium_codes))
        IN  /\ pc = "returned"
            /\ o.pc = "returned"
            /\ result = o.result
            /\ [i \in 1..Len(result.addons) |-> result.addons[i].code]
                  = FirstOccurrences(addon_codes)
            /\ [i \in 1..Len(result.premium_features) |->
                   result.premium_features[i].code]
                  = FirstOccurrences(premium_codes)

C5_Witness ==
    /\ pc = "returned"
    /\ members = 1 /\ plan_code = "basic"
    /\ addon_codes = <<"pt", "classes", "pt">>
    /\ Len(result.addons) = 2
    /\ result.addons[1].code = "pt" /\ result.addons[2].code = "classes"
    /\ result.base_total_usd = 160

\* C6: with the seed catalog every selection that passes validation gets a
\* CalculationResult whose total is strictly positive; the
\* invalid-configuration error is never raised.
C6_TotalPositive ==
    /\ (Called /\ ValidSelection) => (pc = "returned" /\ result.total_usd > 0)
    /\ error # ConfigurationMessage

\* the cheapest selection
C6_Witness ==
    /\ pc = "returned"
    /\ members = 1 /\ plan_code = "basic"
    /\ addon_codes = <<>> /\ premium_codes = <<>>
    /\ result.total_usd = 60

GroupNote == "Group discount applied: 10% off for 2+ members on the same plan."
SurchargeNote == "Premium surcharge applied: +15% (premium features selected)."
Offer20Note == "Special offer applied: -$20 (total exceeds $200)."
Offer50Note == "Special offer applied: -$50 (total exceeds $400)."

\* C7: for every valid selection the messages are, in this order, the group
\* note iff members >= 2, the surcharge note iff a premium feature is selected,
\* the -$20 note iff the special-offer discount is 20 or the -$50 note iff it is
\* 50, and nothing else.
C7_MessagesInRuleOrder ==
    (Called /\ ValidSelection) =>
        result.messages =
            (IF members >= 2 THEN <<GroupNote>> ELSE <<>>)
            \o (IF Range(premium_codes) # {} THEN <<SurchargeNote>> ELSE <<>>)
            \o (CASE result.special_offer_discount_usd = 20 -> <<Offer20Note>>
                  [] result.special_offer_discount_usd = 50 -> <<Offer50Note>>
                  [] OTHER -> <<>>)

C7_Witness ==
    /\ pc = "returned"
    /\ members >= 2
    /\ premium_codes # <<>>
    /\ result.messages = <<GroupNote, SurchargeNote, Offer50Note>>

\* C9: calls leave the three registries at their seed contents, and a call
\* repeated with the same arguments has the same outcome, result or error.
C9_StatelessDeterministic ==
    /\ PLANS = SeedPlans
    /\ ADDONS = SeedAddons
    /\ PREMIUM_FEATURES = SeedPremiumFeatures
    /\ prev # NoOutcome => prev = Outcome

C9_Witness ==
    /\ prev # NoOutcome
    /\ pc = "returned"
    /\ addon_codes # <<>>
    /\ prev.result = result

\* C10: for every valid selection, the group note is present only with a
\* group discount above 0, the surcharge note only with a surcharge above 0,
\* a special-offer note only with a special-offer discount above 0.
C10_NotesOnlyForEffects ==
    (Called /\ ValidSelection) =>
        /\ GroupNote \in Range(result.messages) => result.group_discount_usd > 0
        /\ SurchargeNote \in Range(result.messages) =>
              result.premium_surcharge_usd > 0
        /\ (Offer20Note \in Range(result.messages)
            \/ Offer50Note \in Range(result.messages)) =>
              result.special_offer_discount_usd > 0

\* the smallest group discount: two members on the basic plan
C10_Witness ==
    /\ pc = "returned"
    /\ members = 2 /\ plan_code = "basic"
    /\ addon_codes = <<>> /\ premium_codes = <<>>
    /\ GroupNote \in Range(result.messages)
    /\ result.group_discount_usd = 12

-----------------------------------------------------------------------------
(* Properties of run_cli *)

\* the i-th answer as the prompts compare it: stripped and lowercased
Normalised(i) == Str(lower(strip(answers[i].text)))

IsLine(i) == Len(answers) >= i /\ answers[i].kind = "line"

\* a cancellation word at one of the first four prompts
CancelledAt(i) == IsLine(i) /\ Normalised(i) \in {"q", "quit", "exit"}
Cancelled == \E i \in 1..4 : CancelledAt(i)

\* a member count that is no cancellation word and no integer
NonIntegerMembers ==
    /\ IsLine(1)
    /\ ~CancelledAt(1)
    /\ LET s == strip(answers[1].text)
           d == IF s # <<>> /\ s[1] \in {"+", "-"} THEN Tail(s) ELSE s
       IN  d = <<>> \/ \E i \in 1..Len(d) : d[i] \notin Range(Digits)

\* what the claim and its amendment share: run_cli ends, at the latest on the
\* fifth answer, by returning -1 or a positive total and lets no exception
\* through; a total is returned only after five answered prompts and a
\* successful calculate_total; a cancellation word at one of the first four
\* prompts, a non-integer member count, and a calculate_total error give -1;
\* calculate_total is not called after a cancellation.
CliCommon ==
    /\ Len(answers) <= 5
    /\ cli_pc # "done" => (Len(answers) < 5 /\ ENABLED CliNext)
    /\ cli_pc = "done" =>
          /\ escaped = ""
          /\ ret = -1 \/ ret > 0
          /\ ret # -1 =>
                /\ Len(answers) = 5
                /\ \A i \in 1..5 : IsLine(i)
                /\ pc = "returned"
                /\ ret = result.total_usd
          /\ Cancelled => (ret = -1 /\ pc = "ready")
          /\ NonIntegerMembers => ret = -1
          /\ pc = "raised" => ret = -1

\* C8 as amended: the confirmation that counts is the answer stripped of
\* surrounding whitespace and lowercased; the total is returned only when that
\* is "y", and every other confirmation answer gives -1.
C8_CliOutcomeNormalised ==
    /\ CliCommon
    /\ (cli_pc = "done" /\ ret # -1) => Normalised(5) = "y"
    /\ (cli_pc = "done" /\ Len(answers) = 5
        /\ ~(IsLine(5) /\ Normalised(5) = "y")) => ret = -1

\* C8 as stated: the total is returned only when the confirmation answer is
\* exactly "y", and every other confirmation answer gives -1.
C8_CliOutcomeExactY ==
    /\ CliCommon
    /\ (cli_pc = "done" /\ ret # -1) => answers[5].text = <<"y">>
    /\ (cli_pc = "done" /\ Len(answers) = 5
        /\ ~(IsLine(5) /\ answers[5].text = <<"y">>)) => ret = -1

\* a purchase confirmed with an upper-case Y
C8_Witness ==
    /\ cli_pc = "done"
    /\ Len(answers) = 5
    /\ answers[5] = Line(<<"Y">>)
    /\ pc = "returned"
    /\ ret = result.total_usd
    /\ ret > 0

====
